---- MODULE Spec2Model ----
(***************************************************************************)
(* Model of the MCP47FEB register access layer (src/mcp47feb.c).           *)
(*                                                                         *)
(* The driver is a set of register encode/decode routines over the three   *)
(* bus primitives of the STM32 I2C HAL: transmit, receive and the          *)
(* presence probe.  Every public function is one action.  The bus and the  *)
(* chip behind it are the environment: each transfer may fail, and a       *)
(* transfer to an address no chip answers to always fails.                 *)
(***************************************************************************)
EXTENDS Integers, Sequences, FiniteSets, TLC

(***************************************************************************)
(* C integer operators on naturals.                                        *)
(***************************************************************************)
RECURSIVE BitAnd(_, _)
BitAnd(x, y) ==
    IF x = 0 \/ y = 0 THEN 0
    ELSE (x % 2) * (y % 2) + 2 * BitAnd(x \div 2, y \div 2)

RECURSIVE BitOr(_, _)
BitOr(x, y) ==
    IF x = 0 THEN y
    ELSE IF y = 0 THEN x
    ELSE (IF x % 2 = 1 \/ y % 2 = 1 THEN 1 ELSE 0) + 2 * BitOr(x \div 2, y \div 2)

Shl(x, n) == x * (2 ^ n)

Shr(x, n) == x \div (2 ^ n)

U8(x) == x % 256

U16(x) == x % 65536

(***************************************************************************)
(* Register addresses and command bits (src/mcp47feb.c:21-45).             *)
(***************************************************************************)
READ == 6

WRITE == 0

DAC0_REG == 0

DAC1_REG == 1

VREF_REG == 8

PD_REG == 9

GAIN_REG == 10

WL_REG == 11

DAC0_EP_REG == 16

DAC1_EP_REG == 17

VREF_EP_REG == 24

PD_EP_REG == 25

GAIN_EP_REG == 26

SALCK == 208

UNLOCK_SALCK == 2

LOCK_SALCK == 4

BASE_ADDR == 96

(***************************************************************************)
(* Bounds of the model.                                                    *)
(***************************************************************************)
\* how many transfers of one operation the environment may fail
MaxFaults == 1

\* how many operations are run on a handle after MCP47FEB_Init
MaxOps == 2

(***************************************************************************)
(* The environment: one chip on one bus.                                   *)
(***************************************************************************)
Buses == {"hi2c1"}

ChipBus == "hi2c1"

ChipAddr == BASE_ADDR

\* the addresses a caller binds a handle to: the chip's, and its neighbour
Addrs == {BASE_ADDR, BASE_ADDR + 1}

\* status codes of the HAL: HAL_OK, HAL_ERROR, HAL_BUSY, HAL_TIMEOUT
HalStatus == 0 .. 3

DevKinds == {"echo", "reg"}

\* the registers the chip has; a command byte can name any of 0 .. 31
ChipRegs == {DAC0_REG, DAC1_REG, VREF_REG, PD_REG, GAIN_REG, WL_REG,
             DAC0_EP_REG, DAC1_EP_REG, VREF_EP_REG, PD_EP_REG, GAIN_EP_REG}

NoSrc == 0 - 1

\* sample arguments of MCP47FEB_AnalogWrite (uint16_t)
AnalogVals == {0, 2748, 4096, 5000, 65535}

\* the bytes asked of every receive (src/mcp47feb.c:102, 108)
RxSize == 2

\* the bytes a failing receive may have stored before it failed
PartialBytes == 0 .. (RxSize - 1)

\* arguments of the two-channel setters
SetVals == 0 .. 3

Channels == {0, 1}

ZeroPair == <<0, 0>>

\* the chip's registers at power-up, the working VREF, PD and GAIN registers
\* holding v, p and g
MemImage(v, p, g) ==
    [r \in ChipRegs |->
        IF r = DAC0_REG THEN <<7, 255>>
        ELSE IF r = DAC1_REG THEN <<8, 0>>
        ELSE IF r = VREF_REG THEN <<0, v>>
        ELSE IF r = PD_REG THEN <<0, p>>
        ELSE IF r = GAIN_REG THEN <<g, 0>>
        ELSE ZeroPair]

(***************************************************************************)
(* The chip.  "reg" decodes the command byte as the data sheet does:       *)
(* bits 7..3 select the register, bits 2..1 the command (00 write, 11      *)
(* read); a write stores its two data bytes under the selected register    *)
(* and a read command moves the read pointer.  "echo" is the simulated     *)
(* device of the round-trip test: it returns the data bytes of the last    *)
(* write, whatever the register.                                           *)
(***************************************************************************)
DevWrite(dev, bytes) ==
    LET reg == Shr(bytes[1], 3)
        cmd == Shr(bytes[1], 1) % 4
    IN  IF Len(bytes) = 3
        THEN [dev EXCEPT
                !.mem = IF cmd = 0 /\ reg \in ChipRegs
                        THEN [@ EXCEPT ![reg] = <<bytes[2], bytes[3]>>]
                        ELSE @,
                !.last = <<bytes[2], bytes[3]>>]
        ELSE IF Len(bytes) = 1 /\ cmd = 3
        THEN [dev EXCEPT !.ptr = reg]
        ELSE dev

DevRead(dev) ==
    IF dev.kind = "echo" THEN dev.last
    ELSE IF dev.ptr \in ChipRegs THEN dev.mem[dev.ptr]
    ELSE ZeroPair

\* the register a byte read now comes from
DevSrc(dev) == IF dev.kind = "echo" THEN NoSrc ELSE dev.ptr

Responds(hi2c, DevAddress) == hi2c = ChipBus /\ DevAddress = Shl(ChipAddr, 1)

(***************************************************************************)
(* The HAL's transfers.  m is the machine during one operation: the chip,  *)
(* the log of the transfers made so far, the values the accessors have     *)
(* returned so far, and the environment's plan for this operation (which   *)
(* transfers fail, and how many bytes a failing receive still stores).     *)
(* The driver discards the status of every transmit and receive, so the    *)
(* log keeps HAL_ERROR for each that failed, whatever the cause.           *)
(***************************************************************************)
\* one entry of the log: the HAL function called, the bus and bus address,
\* the bytes that went over the bus (for the probe: its trials and timeout),
\* the size asked for, and the status the HAL returned (0 is HAL_OK)
Transfer(fn, hi2c, addr, data, size, status) ==
    <<fn, hi2c, addr, data, size, status>>

Fn(e) == e[1]

Bus(e) == e[2]

Addr(e) == e[3]

Data(e) == e[4]

Asked(e) == e[5]

Status(e) == e[6]

Ok(e) == Status(e) = 0

CallNo(m) == Len(m.log) + 1

Succeeds(m, hi2c, DevAddress) ==
    Responds(hi2c, DevAddress) /\ CallNo(m) \notin m.faults

HAL_I2C_Master_Transmit(m, hi2c, DevAddress, pData, Size) ==
    LET ok == Succeeds(m, hi2c, DevAddress)
        bytes == SubSeq(pData, 1, Size)
    IN  [m EXCEPT
            !.dev = IF ok THEN DevWrite(@, bytes) ELSE @,
            !.log = Append(@, Transfer("Transmit", hi2c, DevAddress, bytes,
                                       Size, IF ok THEN 0 ELSE 1))]

\* a buffer of the driver: its bytes and, for each, the register it was read from
HAL_I2C_Master_Receive(m, hi2c, DevAddress, buffer, Size) ==
    LET ok == Succeeds(m, hi2c, DevAddress)
        n == IF ok THEN Size
             ELSE IF Responds(hi2c, DevAddress) /\ m.part < Size THEN m.part
             ELSE 0
        got == DevRead(m.dev)
    IN  [m |-> [m EXCEPT
                  !.log = Append(@, Transfer("Receive", hi2c, DevAddress,
                                             SubSeq(got, 1, n), Size,
                                             IF ok THEN 0 ELSE 1))],
         buf |-> [d |-> [i \in 1 .. 5 |->
                            IF i <= n THEN got[i] ELSE buffer.d[i]],
                  s |-> [i \in 1 .. 5 |->
                            IF i <= n THEN DevSrc(m.dev) ELSE buffer.s[i]]]]

HAL_I2C_IsDeviceReady(m, hi2c, DevAddress, Trials, Timeout, status) ==
    [m EXCEPT
        !.log = Append(@, Transfer("IsDeviceReady", hi2c, DevAddress,
                                   <<Trials, Timeout>>, 0, status))]

(***************************************************************************)
(* C finishes one statement before it starts the next: Then(e, F) is F     *)
(* applied to the value of e.                                              *)
(***************************************************************************)
Then(e, F(_)) == CHOOSE r \in {F(x) : x \in {e}} : TRUE

(***************************************************************************)
(* Register framing (src/mcp47feb.c:99-133).                               *)
(***************************************************************************)
\* ReadEpAddr without the mirror-bank bit
ReadEpAddr_NoBankBit(m, dac, REG, buffer) ==
    LET readReg == U8(BitOr(READ, Shl(REG, 3)))
    IN  Then(HAL_I2C_Master_Transmit(m, dac.hi2c, Shl(dac.devAddr, 1),
                                     <<readReg>>, 1),
             LAMBDA m1 : HAL_I2C_Master_Receive(m1, dac.hi2c,
                                                Shl(dac.devAddr, 1), buffer, 2))

ReadEpAddr(m, dac, REG, buffer) ==
    LET readReg == U8(BitOr(128, BitOr(READ, Shl(REG, 3))))
    IN  Then(HAL_I2C_Master_Transmit(m, dac.hi2c, Shl(dac.devAddr, 1),
                                     <<readReg>>, 1),
             LAMBDA m1 : HAL_I2C_Master_Receive(m1, dac.hi2c,
                                                Shl(dac.devAddr, 1), buffer, 2))

ReadAddr(m, dac, REG, buffer) ==
    LET readReg == U8(BitOr(READ, Shl(REG, 3)))
    IN  Then(HAL_I2C_Master_Transmit(m, dac.hi2c, Shl(dac.devAddr, 1),
                                     <<readReg>>, 1),
             LAMBDA m1 : HAL_I2C_Master_Receive(m1, dac.hi2c,
                                                Shl(dac.devAddr, 1), buffer, 2))

FastWrite(m, dac, REG, DATA) ==
    LET payload == << U8(BitOr(Shl(REG, 3), WRITE)),
                      BitAnd(Shr(DATA, 8), 255),
                      BitAnd(DATA, 255) >>
    IN  HAL_I2C_Master_Transmit(m, dac.hi2c, Shl(dac.devAddr, 1), payload, 3)

\* WriteAddr placing the gain byte like every other register's
WriteAddr_SamePlacement(m, dac, REG, data) ==
    LET payload == << U8(BitOr(REG, WRITE)), 0, data >>
    IN  HAL_I2C_Master_Transmit(m, dac.hi2c, Shl(dac.devAddr, 1), payload, 3)

WriteAddr(m, dac, REG, data) ==
    LET payload == IF REG = GAIN_REG
                   THEN << U8(BitOr(REG, WRITE)), data, 0 >>
                   ELSE << U8(BitOr(REG, WRITE)), 0, data >>
    IN  HAL_I2C_Master_Transmit(m, dac.hi2c, Shl(dac.devAddr, 1), payload, 3)

(***************************************************************************)
(* What an accessor returned, kept beside the log: the transfers it made   *)
(* (first .. last), the register its command byte selects, and the         *)
(* registers the bytes it decoded were read from.                          *)
(***************************************************************************)
Returned(m0, m1, fn, channel, ret, want, tags) ==
    [m |-> [m1 EXCEPT
              !.gets = Append(@, <<fn, channel, ret, Len(m0.log) + 1,
                                   Len(m1.log), want, tags>>)],
     ret |-> ret]

GetFn(g) == g[1]

GetChannel(g) == g[2]

GetRet(g) == g[3]

GetFirst(g) == g[4]

GetLast(g) == g[5]

GetWant(g) == g[6]

GetTags(g) == g[7]

\* uint8_t buff[5] = {0}
LocalBuffer == [d |-> [i \in 1 .. 5 |-> 0], s |-> [i \in 1 .. 5 |-> NoSrc]]

\* the two channels' two-bit fields of a control byte
Pair2(byte) == << BitAnd(byte, 3), Shr(BitAnd(byte, 12), 2) >>

\* the two channels' one-bit fields of a control byte
Pair1(byte) == << BitAnd(byte, 1), Shr(BitAnd(byte, 2), 1) >>

\* the machine after a read into the static readBuffer
Stored(r) == [r.m EXCEPT !.readBuffer = r.buf]

(***************************************************************************)
(* Per-attribute accessors (src/mcp47feb.c:154-221).  readBuffer[0] and    *)
(* readBuffer[1] of the source are d[1] and d[2] here.                     *)
(***************************************************************************)
MCP47FEB_GetPowerDown(m, dac, channel) ==
    Then(ReadAddr(m, dac, PD_REG, m.readBuffer), LAMBDA r :
        LET powerDown == Pair2(r.buf.d[2])
        IN  Returned(m, Stored(r), "GetPowerDown", channel,
                     IF channel = 0 THEN powerDown[1] ELSE powerDown[2],
                     PD_REG, {r.buf.s[2]}))

\* MCP47FEB_SetPowerDown packing channel 1 one bit up, as the gain is packed
MCP47FEB_SetPowerDown_GainPacking(m, dac, val0, val1) ==
    WriteAddr(m, dac, PD_REG, U8(BitOr(val0, Shl(val1, 1))))

MCP47FEB_SetPowerDown(m, dac, val0, val1) ==
    WriteAddr(m, dac, PD_REG, U8(BitOr(val0, Shl(val1, 2))))

MCP47FEB_GetPowerDownEp(m, dac, channel) ==
    Then(ReadEpAddr(m, dac, PD_REG, m.readBuffer), LAMBDA r :
        LET powerDownEp == Pair2(r.buf.d[2])
        IN  Returned(m, Stored(r), "GetPowerDownEp", channel,
                     IF channel = 0 THEN powerDownEp[1] ELSE powerDownEp[2],
                     PD_EP_REG, {r.buf.s[2]}))

MCP47FEB_GetGain(m, dac, channel) ==
    Then(ReadAddr(m, dac, GAIN_REG, LocalBuffer), LAMBDA r :
        LET gain == Pair1(r.buf.d[1])
        IN  Returned(m, r.m, "GetGain", channel,
                     IF channel = 0 THEN gain[1] ELSE gain[2],
                     GAIN_REG, {r.buf.s[1]}))

MCP47FEB_SetGain(m, dac, val0, val1) ==
    WriteAddr(m, dac, GAIN_REG, U8(BitOr(val0, Shl(val1, 1))))

MCP47FEB_GetGainEp(m, dac, channel) ==
    Then(ReadEpAddr(m, dac, GAIN_REG, m.readBuffer), LAMBDA r :
        LET gainEp == Pair1(r.buf.d[1])
        IN  Returned(m, Stored(r), "GetGainEp", channel,
                     IF channel = 0 THEN gainEp[1] ELSE gainEp[2],
                     GAIN_EP_REG, {r.buf.s[1]}))

MCP47FEB_GetVref(m, dac, channel) ==
    Then(ReadAddr(m, dac, VREF_REG, m.readBuffer), LAMBDA r :
        LET intVref == Pair2(r.buf.d[2])
        IN  Returned(m, Stored(r), "GetVref", channel,
                     IF channel = 0 THEN intVref[1] ELSE intVref[2],
                     VREF_REG, {r.buf.s[2]}))

MCP47FEB_SetVref(m, dac, val0, val1) ==
    WriteAddr(m, dac, VREF_REG, U8(BitOr(val0, Shl(val1, 2))))

MCP47FEB_GetVrefEp(m, dac, channel) ==
    Then(ReadEpAddr(m, dac, VREF_REG, m.readBuffer), LAMBDA r :
        LET intVrefEp == Pair2(r.buf.d[2])
        IN  Returned(m, Stored(r), "GetVrefEp", channel,
                     IF channel = 0 THEN intVrefEp[1] ELSE intVrefEp[2],
                     VREF_EP_REG, {r.buf.s[2]}))

\* the register MCP47FEB_GetValue passes to _ReadAddr
ValueReg(channel) == U8(Shl(channel, 3))

word(x, y) == BitOr(Shl(x, 8), y)

MCP47FEB_GetValue(m, dac, channel) ==
    Then(ReadAddr(m, dac, ValueReg(channel), m.readBuffer), LAMBDA r :
        Returned(m, Stored(r), "GetValue", channel,
                 U16(word(BitAnd(r.buf.d[1], 15), r.buf.d[2])),
                 ValueReg(channel), {r.buf.s[1], r.buf.s[2]}))

\* MCP47FEB_AnalogWrite without the 12-bit mask
MCP47FEB_AnalogWrite_NoMask(m, dac, val0, val1) ==
    Then(FastWrite(m, dac, DAC0_REG, val0), LAMBDA m1 :
        FastWrite(m1, dac, DAC1_REG, val1))

MCP47FEB_AnalogWrite(m, dac, val0, val1) ==
    LET v0 == BitAnd(val0, 4095)
        v1 == BitAnd(val1, 4095)
    IN  Then(FastWrite(m, dac, DAC0_REG, v0), LAMBDA m1 :
            FastWrite(m1, dac, DAC1_REG, v1))

(***************************************************************************)
(* Address lock / unlock (src/mcp47feb.c:136-152).                         *)
(***************************************************************************)
MCP47FEB_UnlockSALCK(m, dac) ==
    WriteAddr(m, dac, BitOr(SALCK, UNLOCK_SALCK), 0)

\* MCP47FEB_LockSALCK rebinding the caller's handle instead of a temporary
MCP47FEB_LockSALCK_Rebinds(m, dac, addr) ==
    LET BIAS_DAC == [devAddr |-> addr, hi2c |-> dac.hi2c]
    IN  [WriteAddr(m, BIAS_DAC, BitOr(SALCK, UNLOCK_SALCK), 0)
            EXCEPT !.dac = BIAS_DAC]

MCP47FEB_LockSALCK(m, dac, addr) ==
    LET BIAS_DAC == [devAddr |-> addr, hi2c |-> dac.hi2c]
    IN  WriteAddr(m, BIAS_DAC, BitOr(SALCK, UNLOCK_SALCK), 0)

(***************************************************************************)
(* Bulk persistence (src/mcp47feb.c:230-240), statement by statement.  C   *)
(* leaves the order of the two calls in GetGain(0) | GetGain(1)<<1 and in  *)
(* GetPowerDown(0) | GetPowerDown(1)<<2 to the compiler: gainFirst and     *)
(* pdFirst are the channel whose call is made first.                       *)
(***************************************************************************)
\* _FastWrite(dac, DACc_EP_REG, MCP47FEB_GetValue(dac, c))
PersistValue(m, dac, channel) ==
    Then(MCP47FEB_GetValue(m, dac, channel), LAMBDA a :
        FastWrite(a.m, dac, IF channel = 0 THEN DAC0_EP_REG ELSE DAC1_EP_REG,
                  a.ret))

\* vref0 = GetVref(0); vref1 = GetVref(1); _FastWrite(VREF_EP_REG, ...)
PersistVref(m, dac) ==
    Then(MCP47FEB_GetVref(m, dac, 0), LAMBDA vref0 :
    Then(MCP47FEB_GetVref(vref0.m, dac, 1), LAMBDA vref1 :
        FastWrite(vref1.m, dac, VREF_EP_REG,
                  U16(BitOr(vref0.ret, Shl(vref1.ret, 2))))))

\* PersistGain without the shift to the high byte
PersistGain_Unshifted(m, dac, gainFirst) ==
    Then(MCP47FEB_GetGain(m, dac, gainFirst), LAMBDA gA :
    Then(MCP47FEB_GetGain(gA.m, dac, 1 - gainFirst), LAMBDA gB :
        LET gain0 == IF gainFirst = 0 THEN gA.ret ELSE gB.ret
            gain1 == IF gainFirst = 0 THEN gB.ret ELSE gA.ret
        IN  FastWrite(gB.m, dac, GAIN_EP_REG,
                      U16(BitOr(gain0, Shl(gain1, 1))))))

\* _FastWrite(GAIN_EP_REG, (GetGain(0) | GetGain(1)<<1)<<8)
PersistGain(m, dac, gainFirst) ==
    Then(MCP47FEB_GetGain(m, dac, gainFirst), LAMBDA gA :
    Then(MCP47FEB_GetGain(gA.m, dac, 1 - gainFirst), LAMBDA gB :
        LET gain0 == IF gainFirst = 0 THEN gA.ret ELSE gB.ret
            gain1 == IF gainFirst = 0 THEN gB.ret ELSE gA.ret
        IN  FastWrite(gB.m, dac, GAIN_EP_REG,
                      U16(Shl(BitOr(gain0, Shl(gain1, 1)), 8)))))

\* _FastWrite(PD_EP_REG, GetPowerDown(0) | GetPowerDown(1)<<2)
PersistPowerDown(m, dac, pdFirst) ==
    Then(MCP47FEB_GetPowerDown(m, dac, pdFirst), LAMBDA pA :
    Then(MCP47FEB_GetPowerDown(pA.m, dac, 1 - pdFirst), LAMBDA pB :
        LET pd0 == IF pdFirst = 0 THEN pA.ret ELSE pB.ret
            pd1 == IF pdFirst = 0 THEN pB.ret ELSE pA.ret
        IN  FastWrite(pB.m, dac, PD_EP_REG, U16(BitOr(pd0, Shl(pd1, 2))))))

\* MCP47FEB_EEPROMWrite persisting power-down before gain
MCP47FEB_EEPROMWrite_PdFirst(m, dac, gainFirst, pdFirst) ==
    Then(PersistValue(m, dac, 0), LAMBDA m1 :
    Then(PersistValue(m1, dac, 1), LAMBDA m2 :
    Then(PersistVref(m2, dac), LAMBDA m3 :
    Then(PersistPowerDown(m3, dac, pdFirst), LAMBDA m4 :
        PersistGain(m4, dac, gainFirst)))))

MCP47FEB_EEPROMWrite(m, dac, gainFirst, pdFirst) ==
    Then(PersistValue(m, dac, 0), LAMBDA m1 :
    Then(PersistValue(m1, dac, 1), LAMBDA m2 :
    Then(PersistVref(m2, dac), LAMBDA m3 :
    Then(PersistGain(m3, dac, gainFirst), LAMBDA m4 :
        PersistPowerDown(m4, dac, pdFirst)))))

(***************************************************************************)
(* Device lifecycle (src/mcp47feb.c:77-90).                                *)
(***************************************************************************)
MCP47FEB_Init(dac, devAddr, hi2c) ==
    [dac EXCEPT !.devAddr = devAddr, !.hi2c = hi2c]

\* MCP47FEB_IsReady folding every failure into EXIT_FAILURE
MCP47FEB_IsReady_ExitCode(m, dac, status) ==
    [m |-> HAL_I2C_IsDeviceReady(m, dac.hi2c, Shl(dac.devAddr, 1), 2, 2, status),
     ret |-> IF status = 0 THEN 0 ELSE 1]

\* the probe: its status is handed back as it came
MCP47FEB_IsReady(m, dac, status) ==
    [m |-> HAL_I2C_IsDeviceReady(m, dac.hi2c, Shl(dac.devAddr, 1), 2, 2, status),
     ret |-> status]

(***************************************************************************)
(* State.                                                                  *)
(*   dac         the caller's handle                                       *)
(*   inited      whether MCP47FEB_Init has bound it                        *)
(*   readBuffer  the driver's static scratch buffer                        *)
(*   dev         the chip                                                  *)
(*   call        the last operation: its name, arguments, return value,    *)
(*               the transfers it made and the accessor values it used     *)
(*   ops         operations run since MCP47FEB_Init                        *)
(*   initArgs    the arguments of MCP47FEB_Init                            *)
(*   lockSeen    whether MCP47FEB_LockSALCK ran with another address       *)
(*   pdTrip      progress of SetPowerDown; GetPowerDown(0);                *)
(*               GetPowerDown(1) with no failing transfer                  *)
(***************************************************************************)
VARIABLES dac, inited, readBuffer, dev, call, ops, initArgs, lockSeen, pdTrip

vars == <<dac, inited, readBuffer, dev, call, ops, initArgs, lockSeen, pdTrip>>

NoTrip == [step |-> 0, val0 |-> 0, val1 |-> 0]

NoCall == [op |-> "none", args |-> <<>>, ret |-> 0, log |-> <<>>, gets |-> <<>>]

NoHandle == [devAddr |-> 0, hi2c |-> "unset"]

\* the environment's plans for an operation of n transfers
RECURSIVE PlansUpTo(_, _)
PlansUpTo(n, k) ==
    IF k = 0 THEN {{}}
    ELSE LET P == PlansUpTo(n, k - 1)
         IN  P \cup {p \cup {i} : p \in P, i \in 1 .. n}

FaultPlans(n) == PlansUpTo(n, MaxFaults)

Machine(faults, part) ==
    [dac |-> dac, dev |-> dev, readBuffer |-> readBuffer, log |-> <<>>,
     gets |-> <<>>, faults |-> faults, part |-> part]

\* the machine of an operation no transfer of which fails
Sound == Machine({}, 0)

AllOk(log) == \A i \in 1 .. Len(log) : Ok(log[i])

InitWith(kinds, images) ==
    /\ dac = NoHandle
    /\ inited = FALSE
    /\ readBuffer = LocalBuffer
    /\ \E k \in kinds, i \in images :
          dev = [kind |-> k, mem |-> MemImage(i[1], i[2], i[3]), ptr |-> 0,
                 last |-> ZeroPair]
    /\ call = NoCall
    /\ ops = 0
    /\ initArgs = NoHandle
    /\ lockSeen = FALSE
    /\ pdTrip = NoTrip

Init == InitWith({"reg"}, {<<6, 9, 1>>})

\* what every operation but MCP47FEB_Init does to the state, given the machine
\* it ends in
Finish(op, args, ret, m, trip, lock) ==
    /\ dac' = m.dac
    /\ dev' = m.dev
    /\ readBuffer' = m.readBuffer
    /\ call' = [op |-> op, args |-> args, ret |-> ret, log |-> m.log,
                gets |-> m.gets]
    /\ ops' = ops + 1
    /\ pdTrip' = trip
    /\ lockSeen' = lock
    /\ UNCHANGED <<inited, initArgs>>

Ready == inited /\ ops < MaxOps

(***************************************************************************)
(* The operations.                                                         *)
(***************************************************************************)
Init_ ==
    /\ ~inited
    /\ \E a \in Addrs, t \in Buses :
        /\ dac' = MCP47FEB_Init(dac, a, t)
        /\ initArgs' = [devAddr |-> a, hi2c |-> t]
        /\ call' = [NoCall EXCEPT !.op = "Init", !.args = <<a, t>>]
    /\ inited' = TRUE
    /\ UNCHANGED <<readBuffer, dev, ops, lockSeen, pdTrip>>

IsReady ==
    /\ Ready
    /\ \E status \in HalStatus :
        /\ Responds(dac.hi2c, Shl(dac.devAddr, 1)) \/ status # 0
        /\ \E r \in {MCP47FEB_IsReady(Sound, dac, status)} :
              Finish("IsReady", <<>>, r.ret, r.m, NoTrip, lockSeen)

GetPowerDown ==
    /\ Ready
    /\ \E channel \in Channels, f \in FaultPlans(2), n \in PartialBytes :
        \E r \in {MCP47FEB_GetPowerDown(Machine(f, n), dac, channel)} :
            LET trip == IF AllOk(r.m.log) /\ pdTrip.step = channel + 1
                        THEN [pdTrip EXCEPT !.step = channel + 2]
                        ELSE NoTrip
            IN  Finish("GetPowerDown", <<channel>>, r.ret, r.m, trip, lockSeen)

SetPowerDown ==
    /\ Ready
    /\ \E val0 \in SetVals, val1 \in SetVals, f \in FaultPlans(1) :
        \E m \in {MCP47FEB_SetPowerDown(Machine(f, 0), dac, val0, val1)} :
            LET trip == IF AllOk(m.log)
                        THEN [step |-> 1, val0 |-> val0, val1 |-> val1]
                        ELSE NoTrip
            IN  Finish("SetPowerDown", <<val0, val1>>, 0, m, trip, lockSeen)

GetPowerDownEp ==
    /\ Ready
    /\ \E channel \in Channels, f \in FaultPlans(2), n \in PartialBytes :
        \E r \in {MCP47FEB_GetPowerDownEp(Machine(f, n), dac, channel)} :
            Finish("GetPowerDownEp", <<channel>>, r.ret, r.m, NoTrip, lockSeen)

GetGain ==
    /\ Ready
    /\ \E channel \in Channels, f \in FaultPlans(2), n \in PartialBytes :
        \E r \in {MCP47FEB_GetGain(Machine(f, n), dac, channel)} :
            Finish("GetGain", <<channel>>, r.ret, r.m, NoTrip, lockSeen)

SetGain ==
    /\ Ready
    /\ \E val0 \in SetVals, val1 \in SetVals, f \in FaultPlans(1) :
        \E m \in {MCP47FEB_SetGain(Machine(f, 0), dac, val0, val1)} :
            Finish("SetGain", <<val0, val1>>, 0, m, NoTrip, lockSeen)

GetGainEp ==
    /\ Ready
    /\ \E channel \in Channels, f \in FaultPlans(2), n \in PartialBytes :
        \E r \in {MCP47FEB_GetGainEp(Machine(f, n), dac, channel)} :
            Finish("GetGainEp", <<channel>>, r.ret, r.m, NoTrip, lockSeen)

GetVref ==
    /\ Ready
    /\ \E channel \in Channels, f \in FaultPlans(2), n \in PartialBytes :
        \E r \in {MCP47FEB_GetVref(Machine(f, n), dac, channel)} :
            Finish("GetVref", <<channel>>, r.ret, r.m, NoTrip, lockSeen)

SetVref ==
    /\ Ready
    /\ \E val0 \in SetVals, val1 \in SetVals, f \in FaultPlans(1) :
        \E m \in {MCP47FEB_SetVref(Machine(f, 0), dac, val0, val1)} :
            Finish("SetVref", <<val0, val1>>, 0, m, NoTrip, lockSeen)

GetVrefEp ==
    /\ Ready
    /\ \E channel \in Channels, f \in FaultPlans(2), n \in PartialBytes :
        \E r \in {MCP47FEB_GetVrefEp(Machine(f, n), dac, channel)} :
            Finish("GetVrefEp", <<channel>>, r.ret, r.m, NoTrip, lockSeen)

GetValue ==
    /\ Ready
    /\ \E channel \in Channels, f \in FaultPlans(2), n \in PartialBytes :
        \E r \in {MCP47FEB_GetValue(Machine(f, n), dac, channel)} :
            Finish("GetValue", <<channel>>, r.ret, r.m, NoTrip, lockSeen)

AnalogWrite ==
    /\ Ready
    /\ \E val0 \in AnalogVals, val1 \in AnalogVals, f \in FaultPlans(2) :
        \E m \in {MCP47FEB_AnalogWrite(Machine(f, 0), dac, val0, val1)} :
            Finish("AnalogWrite", <<val0, val1>>, 0, m, NoTrip, lockSeen)

\* transfers of one MCP47FEB_EEPROMWrite: eight reads of two, five writes
EEPROMWriteCalls == 21

EEPROMWrite ==
    /\ Ready
    /\ \E gainFirst \in Channels, pdFirst \in Channels,
          f \in FaultPlans(EEPROMWriteCalls), n \in PartialBytes :
        \E m \in {MCP47FEB_EEPROMWrite(Machine(f, n), dac, gainFirst, pdFirst)} :
            Finish("EEPROMWrite", <<>>, 0, m, NoTrip, lockSeen)

UnlockSALCK ==
    /\ Ready
    /\ \E f \in FaultPlans(1) :
        \E m \in {MCP47FEB_UnlockSALCK(Machine(f, 0), dac)} :
            Finish("UnlockSALCK", <<>>, 0, m, NoTrip, lockSeen)

LockSALCK ==
    /\ Ready
    /\ \E addr \in Addrs, f \in FaultPlans(1) :
        \E m \in {MCP47FEB_LockSALCK(Machine(f, 0), dac, addr)} :
            Finish("LockSALCK", <<addr>>, 0, m, NoTrip,
                   lockSeen \/ addr # dac.devAddr)

Next ==
    \/ Init_
    \/ IsReady
    \/ GetPowerDown
    \/ SetPowerDown
    \/ GetPowerDownEp
    \/ GetGain
    \/ SetGain
    \/ GetGainEp
    \/ GetVref
    \/ SetVref
    \/ GetVrefEp
    \/ GetValue
    \/ AnalogWrite
    \/ EEPROMWrite
    \/ UnlockSALCK
    \/ LockSALCK

Spec == Init /\ [][Next]_vars

(***************************************************************************)
(* The components on their own.                                            *)
(***************************************************************************)
\* output values
NextOutput ==
    \/ Init_
    \/ AnalogWrite
    \/ GetValue

SpecOutput == Init /\ [][NextOutput]_vars

\* probe, configuration writes and the address lock
NextControl ==
    \/ Init_
    \/ IsReady
    \/ SetPowerDown
    \/ SetGain
    \/ SetVref
    \/ UnlockSALCK
    \/ LockSALCK

SpecControl == Init /\ [][NextControl]_vars

\* the power-down pair against the echoing device
InitEcho == InitWith({"echo"}, {<<6, 9, 1>>})

NextEcho ==
    \/ Init_
    \/ SetPowerDown
    \/ GetPowerDown

SpecEcho == InitEcho /\ [][NextEcho]_vars

\* bulk persistence, from several power-up images
PersistImages == {<<6, 9, 1>>, <<13, 6, 2>>, <<11, 0, 3>>, <<0, 15, 0>>}

InitPersist == InitWith({"reg"}, PersistImages)

NextPersist ==
    \/ Init_
    \/ EEPROMWrite

SpecPersist == InitPersist /\ [][NextPersist]_vars

\* the two streamed reads, applied to every working register
FrameRegs == {DAC0_REG, DAC1_REG, VREF_REG, PD_REG, GAIN_REG, WL_REG}

ReadAddrCall ==
    /\ Ready
    /\ \E REG \in FrameRegs, f \in FaultPlans(2), n \in PartialBytes :
        \E r \in {ReadAddr(Machine(f, n), dac, REG, readBuffer)} :
            Finish("ReadAddr", <<REG>>, 0, Stored(r), NoTrip, lockSeen)

ReadEpAddrCall ==
    /\ Ready
    /\ \E REG \in FrameRegs, f \in FaultPlans(2), n \in PartialBytes :
        \E r \in {ReadEpAddr(Machine(f, n), dac, REG, readBuffer)} :
            Finish("ReadEpAddr", <<REG>>, 0, Stored(r), NoTrip, lockSeen)

NextFraming ==
    \/ Init_
    \/ ReadAddrCall
    \/ ReadEpAddrCall

SpecFraming == Init /\ [][NextFraming]_vars

(***************************************************************************)
(* Reading the record of the last operation.                               *)
(***************************************************************************)
IsWrite3(e) == Fn(e) = "Transmit" /\ Asked(e) = 3

IsReadCmd(e) == Fn(e) = "Transmit" /\ Asked(e) = 1

IsRead2(e) == Fn(e) = "Receive" /\ Asked(e) = 2

\* positions of the three-byte writes in a log, in order
RECURSIVE WritesFrom(_, _)
WritesFrom(log, i) ==
    IF i > Len(log) THEN <<>>
    ELSE IF IsWrite3(log[i]) THEN <<i>> \o WritesFrom(log, i + 1)
    ELSE WritesFrom(log, i + 1)

Writes(log) == WritesFrom(log, 1)

\* the value an accessor call of the last operation returned
RetOf(fn, channel) ==
    LET k == CHOOSE j \in 1 .. Len(call.gets) :
                 GetFn(call.gets[j]) = fn /\ GetChannel(call.gets[j]) = channel
    IN  GetRet(call.gets[k])

\* accessor calls j made after the write at position lo and before the one at hi
GetsBetween(lo, hi) ==
    {j \in 1 .. Len(call.gets) :
        GetFirst(call.gets[j]) > lo /\ GetLast(call.gets[j]) < hi}

GetNames(js) == {<<GetFn(call.gets[j]), GetChannel(call.gets[j])>> : j \in js}

\* the three bytes of a fast write of v cut to 12 bits
AnalogPayload(REG, v) == << 8 * REG, (v % 4096) \div 256, v % 256 >>

(***************************************************************************)
(* C3.  MCP47FEB_AnalogWrite(val0, val1) makes exactly two transfers, both *)
(* three-byte transmits to the handle's bus address: the first carries     *)
(* the command byte of DAC0 and val0 cut to 12 bits, high byte then low    *)
(* byte, the second the command byte of DAC1 and val1 cut to 12 bits; no   *)
(* value sent exceeds 4095.                                                *)
(***************************************************************************)
AnalogWriteTruncates ==
    call.op = "AnalogWrite" =>
        /\ Len(call.log) = 2
        /\ \A i \in 1 .. 2 :
              /\ IsWrite3(call.log[i])
              /\ Addr(call.log[i]) = 2 * dac.devAddr
              /\ Bus(call.log[i]) = dac.hi2c
              /\ 256 * Data(call.log[i])[2] + Data(call.log[i])[3] <= 4095
        /\ Data(call.log[1]) = AnalogPayload(DAC0_REG, call.args[1])
        /\ Data(call.log[2]) = AnalogPayload(DAC1_REG, call.args[2])

\* AnalogWrite(4096, 5000) went out as 0 and 5000 - 4096 = 0x388
AnalogWriteWitness ==
    /\ call.op = "AnalogWrite"
    /\ call.args = <<4096, 5000>>
    /\ AllOk(call.log)
    /\ Data(call.log[1]) = <<0, 0, 0>>
    /\ Data(call.log[2]) = <<8, 3, 136>>

(***************************************************************************)
(* C4.  Every addressed write is one three-byte transmit whose first byte  *)
(* is the register index, not shifted.  MCP47FEB_SetGain puts its data     *)
(* byte val0 | val1<<1 second and 0 third; SetPowerDown, SetVref,          *)
(* UnlockSALCK and LockSALCK put 0 second and their data byte third.       *)
(***************************************************************************)
AddressedWritePlacement ==
    /\ call.op \in {"SetGain", "SetPowerDown", "SetVref", "UnlockSALCK",
                    "LockSALCK"}
          => Len(call.log) = 1 /\ IsWrite3(call.log[1])
    /\ call.op = "SetGain" =>
          Data(call.log[1]) = << GAIN_REG, BitOr(call.args[1], 2 * call.args[2]), 0 >>
    /\ call.op = "SetPowerDown" =>
          Data(call.log[1]) = << PD_REG, 0, BitOr(call.args[1], 4 * call.args[2]) >>
    /\ call.op = "SetVref" =>
          Data(call.log[1]) = << VREF_REG, 0, BitOr(call.args[1], 4 * call.args[2]) >>
    /\ call.op \in {"UnlockSALCK", "LockSALCK"} =>
          Data(call.log[1]) = << SALCK + UNLOCK_SALCK, 0, 0 >>

\* SetGain(1, 1) sent 0x0A, 0x03, 0x00
AddressedWriteWitness ==
    /\ call.op = "SetGain"
    /\ call.args = <<1, 1>>
    /\ AllOk(call.log)
    /\ Data(call.log[1]) = <<10, 3, 0>>

\* the persisted registers, the accessor calls feeding each, and its value
EepRegs == << DAC0_EP_REG, DAC1_EP_REG, VREF_EP_REG, GAIN_EP_REG, PD_EP_REG >>

EepFeeds ==
    << {<<"GetValue", 0>>},
       {<<"GetValue", 1>>},
       {<<"GetVref", 0>>, <<"GetVref", 1>>},
       {<<"GetGain", 0>>, <<"GetGain", 1>>},
       {<<"GetPowerDown", 0>>, <<"GetPowerDown", 1>>} >>

EepValues ==
    << RetOf("GetValue", 0),
       RetOf("GetValue", 1),
       BitOr(RetOf("GetVref", 0), 4 * RetOf("GetVref", 1)),
       256 * BitOr(RetOf("GetGain", 0), 2 * RetOf("GetGain", 1)),
       BitOr(RetOf("GetPowerDown", 0), 4 * RetOf("GetPowerDown", 1)) >>

(***************************************************************************)
(* C2.  One MCP47FEB_EEPROMWrite makes exactly five three-byte writes, to  *)
(* DAC0_EP, DAC1_EP, VREF_EP, GAIN_EP and PD_EP in that order; the         *)
(* accessor calls made between one write and the next are exactly the      *)
(* ones the next write's value is built from, and the 16 bits it carries   *)
(* are GetValue(0); GetValue(1); GetVref(0) | GetVref(1)<<2;               *)
(* (GetGain(0) | GetGain(1)<<1)<<8; GetPowerDown(0) | GetPowerDown(1)<<2.  *)
(***************************************************************************)
EEPROMWriteSequence ==
    call.op = "EEPROMWrite" =>
        LET w == Writes(call.log)
        IN  /\ Len(w) = 5
            /\ Len(call.log) = EEPROMWriteCalls
            /\ Len(call.gets) = 8
            /\ \A k \in 1 .. 5 :
                  /\ Data(call.log[w[k]])[1] = 8 * EepRegs[k]
                  /\ GetNames(GetsBetween(IF k = 1 THEN 0 ELSE w[k - 1], w[k]))
                        = EepFeeds[k]
                  /\ Cardinality(GetsBetween(IF k = 1 THEN 0 ELSE w[k - 1], w[k]))
                        = Cardinality(EepFeeds[k])
                  /\ 256 * Data(call.log[w[k]])[2] + Data(call.log[w[k]])[3]
                        = EepValues[k]

\* a persist of the power-up image: VREF 0x06, gain bit of channel 0, PD 0x09
EEPROMWriteWitness ==
    /\ call.op = "EEPROMWrite"
    /\ AllOk(call.log)
    /\ Data(call.log[11]) = <<192, 0, 6>>
    /\ Data(call.log[16]) = <<208, 1, 0>>
    /\ Data(call.log[21]) = <<200, 0, 9>>

\* an accessor whose read failed: its receive, the last transfer it made
GetFailed(c, g) == ~Ok(c.log[GetLast(g)])

GetStale(c, g) ==
    GetFailed(c, g) /\ \E t \in GetTags(g) : t # NoSrc /\ t # GetWant(g)

\* accessor g feeds the write at position i: no write lies between them
Feeds(c, g, i) ==
    /\ GetLast(g) < i
    /\ \A j \in (GetLast(g) + 1) .. (i - 1) : ~IsWrite3(c.log[j])

\* registers written, successfully, with a value an accessor decoded from
\* the bytes a read of another register left in the buffer it was handed
StaleWrites(c) ==
    { Shr(Data(c.log[i])[1], 3) :
        i \in {i \in 1 .. Len(c.log) :
                 /\ IsWrite3(c.log[i])
                 /\ Ok(c.log[i])
                 /\ \E j \in 1 .. Len(c.gets) :
                       Feeds(c, c.gets[j], i) /\ GetStale(c, c.gets[j])} }

(***************************************************************************)
(* C6.  Whatever single transmit or receive of an operation fails, no      *)
(* register of the chip is then written with a value decoded from scratch  *)
(* bytes that a read of another register left behind.                      *)
(***************************************************************************)
NoStaleWrite == StaleWrites(call) = {}

(***************************************************************************)
(* C9.  MCP47FEB_GetValue(c) sends the read command of its own channel's   *)
(* output register, 0x06 | DACc<<3, and returns the low nibble of the      *)
(* first byte received followed by the second; on the register-accurate    *)
(* chip GetValue(1) after AnalogWrite(v0, v1) is v1 cut to 12 bits.        *)
(***************************************************************************)
GetValueReadsOwnChannel ==
    /\ call.op = "GetValue" =>
          /\ IsReadCmd(call.log[1])
          /\ Data(call.log[1]) =
                << 6 + 8 * (IF call.args[1] = 0 THEN DAC0_REG ELSE DAC1_REG) >>
          /\ call.ret = 256 * (readBuffer.d[1] % 16) + readBuffer.d[2]
    /\ (call.op = "AnalogWrite" /\ AllOk(call.log) /\ dev.kind = "reg") =>
          MCP47FEB_GetValue(Sound, dac, 1).ret = call.args[2] % 4096

(***************************************************************************)
(* C1.  Against the echoing device: after MCP47FEB_SetPowerDown(val0,      *)
(* val1) with no failing transfer, MCP47FEB_GetPowerDown(0) returns val0   *)
(* and MCP47FEB_GetPowerDown(1) after it returns val1.                     *)
(***************************************************************************)
PowerDownRoundTrip ==
    dev.kind = "echo" =>
        /\ (call.op = "SetPowerDown" /\ AllOk(call.log)) =>
              \A r0 \in {MCP47FEB_GetPowerDown(Sound, dac, 0)} :
                  /\ r0.ret = call.args[1]
                  /\ MCP47FEB_GetPowerDown(r0.m, dac, 1).ret = call.args[2]
        /\ pdTrip.step = 2 =>
              /\ call.ret = pdTrip.val0
              /\ MCP47FEB_GetPowerDown(Sound, dac, 1).ret = pdTrip.val1
        /\ pdTrip.step = 3 => call.ret = pdTrip.val1

\* SetPowerDown(1, 2), then GetPowerDown(0) returned 1 and GetPowerDown(1) is 2
PowerDownWitness ==
    /\ dev.kind = "echo"
    /\ pdTrip = [step |-> 2, val0 |-> 1, val1 |-> 2]
    /\ call.op = "GetPowerDown"
    /\ call.ret = 1
    /\ MCP47FEB_GetPowerDown(Sound, dac, 1).ret = 2

(***************************************************************************)
(* C5.  For each of DAC0, DAC1, VREF, PD, GAIN and WL, a working-bank      *)
(* read is one transmit of the single byte 0x06 | index<<3 followed by     *)
(* one receive of two bytes from the same bus address, and a mirror-bank   *)
(* read is the same with 0x80 set in the byte sent.                        *)
(***************************************************************************)
StreamedReadFraming ==
    (call.op \in {"ReadAddr", "ReadEpAddr"} /\ call.args[1] \in FrameRegs) =>
        /\ Len(call.log) = 2
        /\ IsReadCmd(call.log[1])
        /\ Data(call.log[1]) =
              << (IF call.op = "ReadEpAddr" THEN 128 ELSE 0) + 6
                 + 8 * call.args[1] >>
        /\ IsRead2(call.log[2])
        /\ Addr(call.log[1]) = 2 * dac.devAddr
        /\ Addr(call.log[2]) = Addr(call.log[1])
        /\ Bus(call.log[2]) = Bus(call.log[1])

\* the mirror read of WL sent 0xDE and got its two bytes
StreamedReadWitness ==
    /\ call.op = "ReadEpAddr"
    /\ call.args = <<WL_REG>>
    /\ AllOk(call.log)
    /\ Data(call.log[1]) = <<222>>
    /\ Len(Data(call.log[2])) = 2

(***************************************************************************)
(* C7.  Once MCP47FEB_Init(handle, a, t) has run, the handle holds a and   *)
(* t whatever operations follow; MCP47FEB_LockSALCK(handle, newAddr)       *)
(* sends to newAddr<<1 on the handle's bus, and every transfer of every    *)
(* other operation goes to a<<1.                                           *)
(***************************************************************************)
HandleImmutable ==
    inited =>
        /\ dac = initArgs
        /\ call.op = "LockSALCK" =>
              /\ Addr(call.log[1]) = 2 * call.args[1]
              /\ Bus(call.log[1]) = initArgs.hi2c
        /\ call.op # "LockSALCK" =>
              \A i \in 1 .. Len(call.log) :
                  /\ Addr(call.log[i]) = 2 * initArgs.devAddr
                  /\ Bus(call.log[i]) = initArgs.hi2c

\* after a lock sent to the other address, a read still reaches the chip
HandleWitness ==
    /\ lockSeen
    /\ call.op = "GetVref"
    /\ AllOk(call.log)
    /\ dac = initArgs
    /\ Addr(call.log[1]) = 2 * BASE_ADDR

PersistRoundTrip ==
    (dev.kind = "reg" /\ call.op = "EEPROMWrite" /\ AllOk(call.log)) =>
        \A c \in Channels :
            /\ MCP47FEB_GetGainEp(Sound, dac, c).ret
                  = MCP47FEB_GetGain(Sound, dac, c).ret
            /\ MCP47FEB_GetVrefEp(Sound, dac, c).ret
                  = MCP47FEB_GetVref(Sound, dac, c).ret
            /\ MCP47FEB_GetPowerDownEp(Sound, dac, c).ret
                  = MCP47FEB_GetPowerDown(Sound, dac, c).ret

\* the image VREF 0x0D, PD 0x06, GAIN 0x02 was persisted and reads back
PersistWitness ==
    /\ dev.kind = "reg"
    /\ call.op = "EEPROMWrite"
    /\ AllOk(call.log)
    /\ MCP47FEB_GetGainEp(Sound, dac, 1).ret = 1
    /\ MCP47FEB_GetGainEp(Sound, dac, 0).ret = 0
    /\ MCP47FEB_GetVrefEp(Sound, dac, 0).ret = 1
    /\ MCP47FEB_GetVrefEp(Sound, dac, 1).ret = 3
    /\ MCP47FEB_GetPowerDownEp(Sound, dac, 0).ret = 2
    /\ MCP47FEB_GetPowerDownEp(Sound, dac, 1).ret = 1

====
